---- MODULE Spec2Model ----
(***************************************************************************)
(* Auth flow of the SaaS backend: POST /auth/login and POST /auth/register *)
(* (app/routers/auth.py) served by concurrent workers against the users    *)
(* table (app/models/models.py).  Strings the code transforms (emails) are *)
(* sequences of characters.  Every database statement of a handler is one  *)
(* atomic step, so requests interleave between their statements; the       *)
(* unique constraints of the table are enforced by the INSERT.             *)
(***************************************************************************)
EXTENDS Integers, Sequences, FiniteSets, TLC

\* ---------------------------------------------------------------- bounds
\* requests (auth and administrative) started in one behaviour
MaxRequests == 3

\* ---------------------------------------------------------------- inputs
Procs == {"w1", "w2"}
Whitespace == {" "}
EmailInputs == {<<"a">>, <<"A">>, <<" ", "a", " ">>, <<"b">>, <<"B", " ">>}
Phones == {"+551", "+552"}
Passwords == {"segredo1", "segredo2"}
Names == {"Ana Silva"}
Brands == {"brandX"}
NULL == "NULL"

\* ---------------------------------------------------------------- models
UserRole == {"super_admin", "user", "pro", "admin"}

\* ---------------------------------------------------------------- strings
RECURSIVE lstrip(_)
lstrip(s) == IF s # <<>> /\ Head(s) \in Whitespace THEN lstrip(Tail(s)) ELSE s

RECURSIVE rstrip(_)
rstrip(s) ==
    IF s # <<>> /\ s[Len(s)] \in Whitespace
    THEN rstrip(SubSeq(s, 1, Len(s) - 1))
    ELSE s

strip(s) == rstrip(lstrip(s))

lowerChar(c) ==
    CASE c = "A" -> "a"
      [] c = "B" -> "b"
      [] OTHER -> c

lower(s) == [i \in 1..Len(s) |-> lowerChar(s[i])]

\* (email or "").strip().lower(); the schema hands over a str, so "or" keeps it
_normalize_email(e) == lower(strip(e))

\* ---------------------------------------------------------------- credential store
\* salted hash: the salt varies from call to call, verify recomputes with it
hash_password(password, salt) == [salt |-> salt, of |-> password]

verify_password(password, hash) == hash = hash_password(password, hash.salt)

create_access_token(sub, extra) == [sub |-> sub, role |-> extra.role]

\* str(u.id)
UuidStr(id) == <<"uuid", id>>

\* ---------------------------------------------------------------- schemas
\* a request body may carry keys the schema does not declare; they are dropped
RegisterBodies ==
    [name : Names, email : EmailInputs, phone : Phones, password : Passwords,
     role : {"user", "admin"}, brand_id : Brands \cup {NULL}]

LoginBodies == [email : EmailInputs, password : Passwords]

UserCreate(body) ==
    [name |-> body.name, email |-> body.email, phone |-> body.phone,
     password |-> body.password]

LoginIn(body) == [email |-> body.email, password |-> body.password]

TokenOut(token) == [access_token |-> token, token_type |-> "bearer"]

\* ---------------------------------------------------------------- responses
HTTPException(code, msg) == [status |-> code, detail |-> msg]

\* an exception no handler catches
InternalServerError == [status |-> 500, detail |-> "Internal Server Error"]

Ok(code, body) == [status |-> code, body |-> body]

NoReq == [none |-> TRUE]

NoResp == [status |-> 0]

\* ---------------------------------------------------------------- state
VARIABLES users, pc, op, req, email, resp, served

vars == <<users, pc, op, req, email, resp, served>>

Init ==
    /\ users = {}
    /\ pc = [p \in Procs |-> "idle"]
    /\ op = [p \in Procs |-> "none"]
    /\ req = [p \in Procs |-> NoReq]
    /\ email = [p \in Procs |-> <<>>]
    /\ resp = [p \in Procs |-> NoResp]
    /\ served = 0

\* ---------------------------------------------------------------- users table
ByEmail(rows, e) == {u \in rows : u.email = e}

ByPhone(rows, ph) == {u \in rows : u.phone = ph}

\* default=uuid.uuid4: an id no stored row has
NextId(rows) == Cardinality(rows) + 1

User_rawEmail(user_in, e, id) ==
    [id |-> id, brand_id |-> NULL, name |-> user_in.name, email |-> user_in.email,
     phone |-> user_in.phone,
     password_hash |-> hash_password(user_in.password, id),
     is_active |-> TRUE, role |-> "user"]

User_rolePro(user_in, e, id) ==
    [id |-> id, brand_id |-> NULL, name |-> user_in.name, email |-> e,
     phone |-> user_in.phone,
     password_hash |-> hash_password(user_in.password, id),
     is_active |-> TRUE, role |-> "pro"]

User(user_in, e, id) ==
    [id |-> id, brand_id |-> NULL, name |-> user_in.name, email |-> e,
     phone |-> user_in.phone,
     password_hash |-> hash_password(user_in.password, id),
     is_active |-> TRUE, role |-> "user"]

UniqueViolation_none(rows, u) == FALSE

\* unique=True on users.email and on users.phone
UniqueViolation(rows, u) ==
    \/ ByEmail(rows, u.email) # {}
    \/ ByPhone(rows, u.phone) # {}

\* ---------------------------------------------------------------- login
LoginResult_roleUser(rows, data) ==
    LET e == _normalize_email(data.email)
        found == ByEmail(rows, e)
    IN  IF found = {} THEN HTTPException(401, "Credenciais invalidas")
        ELSE LET u == CHOOSE x \in found : TRUE
             IN  IF ~u.is_active THEN HTTPException(401, "Credenciais invalidas")
                 ELSE IF ~verify_password(data.password, u.password_hash)
                 THEN HTTPException(401, "Credenciais invalidas")
                 ELSE Ok(200, TokenOut(create_access_token(UuidStr(u.id), [role |-> "user"])))

LoginResult_noActive(rows, data) ==
    LET e == _normalize_email(data.email)
        found == ByEmail(rows, e)
    IN  IF found = {} THEN HTTPException(401, "Credenciais invalidas")
        ELSE LET u == CHOOSE x \in found : TRUE
             IN  IF ~verify_password(data.password, u.password_hash)
                 THEN HTTPException(401, "Credenciais invalidas")
                 ELSE Ok(200, TokenOut(create_access_token(UuidStr(u.id), [role |-> u.role])))

LoginResult_msg(rows, data) ==
    LET e == _normalize_email(data.email)
        found == ByEmail(rows, e)
    IN  IF found = {} THEN HTTPException(401, "Credenciais invalidas")
        ELSE LET u == CHOOSE x \in found : TRUE
             IN  IF ~u.is_active THEN HTTPException(401, "Credenciais invalidas")
                 ELSE IF ~verify_password(data.password, u.password_hash)
                 THEN HTTPException(401, "Senha incorreta")
                 ELSE Ok(200, TokenOut(create_access_token(UuidStr(u.id), [role |-> u.role])))

\* the handler after its single query: u is the first row with that email
LoginResult(rows, data) ==
    LET e == _normalize_email(data.email)
        found == ByEmail(rows, e)
    IN  IF found = {} THEN HTTPException(401, "Credenciais invalidas")
        ELSE LET u == CHOOSE x \in found : TRUE
             IN  IF ~u.is_active THEN HTTPException(401, "Credenciais invalidas")
                 ELSE IF ~verify_password(data.password, u.password_hash)
                 THEN HTTPException(401, "Credenciais invalidas")
                 ELSE Ok(200, TokenOut(create_access_token(UuidStr(u.id), [role |-> u.role])))

login(p) ==
    /\ pc[p] = "idle"
    /\ served < MaxRequests
    /\ served' = served + 1
    /\ \E body \in LoginBodies :
         /\ req' = [req EXCEPT ![p] = LoginIn(body)]
         /\ email' = [email EXCEPT ![p] = _normalize_email(body.email)]
         /\ resp' = [resp EXCEPT ![p] = LoginResult(users, LoginIn(body))]
    /\ op' = [op EXCEPT ![p] = "login"]
    /\ pc' = [pc EXCEPT ![p] = "done"]
    /\ UNCHANGED users

\* ---------------------------------------------------------------- register
register_check_email_raw(p) ==
    /\ pc[p] = "idle"
    /\ served < MaxRequests
    /\ served' = served + 1
    /\ \E body \in RegisterBodies :
         LET user_in == UserCreate(body)
             e == _normalize_email(user_in.email)
         IN  /\ req' = [req EXCEPT ![p] = user_in]
             /\ email' = [email EXCEPT ![p] = e]
             /\ IF ByEmail(users, user_in.email) # {}
                THEN /\ resp' = [resp EXCEPT ![p] =
                                   HTTPException(400, "Esse email ja foi cadastrado")]
                     /\ pc' = [pc EXCEPT ![p] = "done"]
                ELSE /\ resp' = [resp EXCEPT ![p] = NoResp]
                     /\ pc' = [pc EXCEPT ![p] = "check_phone"]
    /\ op' = [op EXCEPT ![p] = "register"]
    /\ UNCHANGED users

\* lines 33-37: normalise, query by email
register_check_email(p) ==
    /\ pc[p] = "idle"
    /\ served < MaxRequests
    /\ served' = served + 1
    /\ \E body \in RegisterBodies :
         LET user_in == UserCreate(body)
             e == _normalize_email(user_in.email)
         IN  /\ req' = [req EXCEPT ![p] = user_in]
             /\ email' = [email EXCEPT ![p] = e]
             /\ IF ByEmail(users, e) # {}
                THEN /\ resp' = [resp EXCEPT ![p] =
                                   HTTPException(400, "Esse email ja foi cadastrado")]
                     /\ pc' = [pc EXCEPT ![p] = "done"]
                ELSE /\ resp' = [resp EXCEPT ![p] = NoResp]
                     /\ pc' = [pc EXCEPT ![p] = "check_phone"]
    /\ op' = [op EXCEPT ![p] = "register"]
    /\ UNCHANGED users

register_check_phone_skip(p) ==
    /\ pc[p] = "check_phone"
    /\ pc' = [pc EXCEPT ![p] = "commit"]
    /\ UNCHANGED <<users, op, req, email, resp, served>>

\* lines 40-41: query by phone (User has the phone column, so hasattr holds)
register_check_phone(p) ==
    /\ pc[p] = "check_phone"
    /\ IF ByPhone(users, req[p].phone) # {}
       THEN /\ resp' = [resp EXCEPT ![p] =
                          HTTPException(400, "Esse telefone ja foi cadastrado")]
            /\ pc' = [pc EXCEPT ![p] = "done"]
       ELSE /\ pc' = [pc EXCEPT ![p] = "commit"]
            /\ UNCHANGED resp
    /\ UNCHANGED <<users, op, req, email, served>>

register_commit_upsert(p) ==
    /\ pc[p] = "commit"
    /\ LET u == User(req[p], email[p], NextId(users))
       IN  /\ users' = (users \ (ByEmail(users, u.email) \cup ByPhone(users, u.phone)))
                         \cup {u}
           /\ resp' = [resp EXCEPT ![p] =
                         Ok(201, [id |-> UuidStr(u.id), email |-> u.email])]
    /\ pc' = [pc EXCEPT ![p] = "done"]
    /\ UNCHANGED <<op, req, email, served>>

\* lines 44-58: build the row, INSERT and COMMIT; the refresh reads back the
\* id and the email, which nothing changes once the row is stored
register_commit(p) ==
    /\ pc[p] = "commit"
    /\ LET u == User(req[p], email[p], NextId(users))
       IN  IF UniqueViolation(users, u)
           THEN /\ resp' = [resp EXCEPT ![p] = InternalServerError]
                /\ UNCHANGED users
           ELSE /\ users' = users \cup {u}
                /\ resp' = [resp EXCEPT ![p] =
                              Ok(201, [id |-> UuidStr(u.id), email |-> u.email])]
    /\ pc' = [pc EXCEPT ![p] = "done"]
    /\ UNCHANGED <<op, req, email, served>>

\* the response is sent; the worker is free for the next request
respond(p) ==
    /\ pc[p] = "done"
    /\ pc' = [pc EXCEPT ![p] = "idle"]
    /\ op' = [op EXCEPT ![p] = "none"]
    /\ req' = [req EXCEPT ![p] = NoReq]
    /\ email' = [email EXCEPT ![p] = <<>>]
    /\ resp' = [resp EXCEPT ![p] = NoResp]
    /\ UNCHANGED <<users, served>>

\* ---------------------------------------------------------------- administration
\* soft-disable / re-enable of a stored user
admin_set_active(u, b) ==
    /\ served < MaxRequests
    /\ u \in users
    /\ u.is_active # b
    /\ users' = (users \ {u}) \cup {[u EXCEPT !.is_active = b]}
    /\ served' = served + 1
    /\ UNCHANGED <<pc, op, req, email, resp>>

\* promotion / demotion of a stored user
admin_set_role(u, r) ==
    /\ served < MaxRequests
    /\ u \in users
    /\ u.role # r
    /\ users' = (users \ {u}) \cup {[u EXCEPT !.role = r]}
    /\ served' = served + 1
    /\ UNCHANGED <<pc, op, req, email, resp>>

Next ==
    \/ \E p \in Procs : login(p)
    \/ \E p \in Procs : register_check_email(p)
    \/ \E p \in Procs : register_check_phone(p)
    \/ \E p \in Procs : register_commit(p)
    \/ \E p \in Procs : respond(p)
    \/ \E u \in users : \E b \in BOOLEAN : admin_set_active(u, b)
    \/ \E u \in users : \E r \in UserRole : admin_set_role(u, r)

Spec == Init /\ [][Next]_vars

\* ================================================================ properties
\* the step worker p takes from the idle state into the handler named o
Starts(p, o) == pc[p] = "idle" /\ op'[p] = o

\* the password a stored user registered with
PasswordOf(u) == u.password_hash.of

Finished(p, o) == pc[p] = "done" /\ op[p] = o

\* C1: a register whose email normalises to the email of a stored user fails
\* with DuplicateEmail (400), whatever the casing, whitespace and phone
\* submitted, and adds no user.
C1_DuplicateEmail ==
    [][\A p \in Procs :
         (/\ Starts(p, "register")
          /\ \E u \in users : u.email = _normalize_email(req'[p].email))
         => /\ pc'[p] = "done"
            /\ resp'[p] = [status |-> 400, detail |-> "Esse email ja foi cadastrado"]
            /\ users' = users]_vars

C1_Witness ==
    \E p \in Procs : \E u \in users :
        /\ Finished(p, "register")
        /\ resp[p] = [status |-> 400, detail |-> "Esse email ja foi cadastrado"]
        /\ req[p].email # u.email
        /\ _normalize_email(req[p].email) = u.email
        /\ req[p].phone # u.phone

\* C2: when two registers with the same normalised email (or the same phone)
\* race, the loser ends with DuplicateEmail / DuplicatePhone (400) and never
\* with a raw storage error (500); one row is created.
C2_RaceLoserGetsDomainError ==
    \A p \in Procs :
        Finished(p, "register") =>
            /\ resp[p].status \in {201, 400}
            /\ Cardinality(ByEmail(users, email[p])) <= 1
            /\ Cardinality(ByPhone(users, req[p].phone)) <= 1

\* C3: login with any variant of the email and the registered password of a
\* stored active user answers 200 with a bearer token whose subject is the
\* user's id and whose role is the role stored at that moment.
C3_LoginSucceeds ==
    [][\A p \in Procs :
         Starts(p, "login") =>
           \A u \in users :
             (/\ u.email = _normalize_email(req'[p].email)
              /\ u.is_active
              /\ PasswordOf(u) = req'[p].password)
             => resp'[p] =
                  [status |-> 200,
                   body |-> [access_token |-> [sub |-> UuidStr(u.id), role |-> u.role],
                             token_type |-> "bearer"]]]_vars

C3_Witness ==
    \E p \in Procs : \E u \in users :
        /\ Finished(p, "login")
        /\ resp[p].status = 200
        /\ req[p].email # u.email
        /\ _normalize_email(req[p].email) = u.email
        /\ u.role # "user"
        /\ resp[p].body.access_token = [sub |-> UuidStr(u.id), role |-> u.role]

\* C4: login for a stored user whose active flag is false fails with
\* InvalidCredentials (401) and carries no token, also with the right password.
C4_InactiveRejected ==
    [][\A p \in Procs :
         Starts(p, "login") =>
           \A u \in users :
             (u.email = _normalize_email(req'[p].email) /\ ~u.is_active)
             => /\ resp'[p].status = 401
                /\ "body" \notin DOMAIN resp'[p]]_vars

C4_Witness ==
    \E p \in Procs : \E u \in users :
        /\ Finished(p, "login")
        /\ resp[p].status = 401
        /\ _normalize_email(req[p].email) = u.email
        /\ ~u.is_active
        /\ PasswordOf(u) = req[p].password

C6_RegisterLoginRoundTrip ==
    [][\A p, q \in Procs :
         (/\ Starts(p, "login")
          /\ Finished(q, "register") /\ resp[q].status = 201
          /\ _normalize_email(req'[p].email) = _normalize_email(req[q].email)
          /\ req'[p].password = req[q].password
          /\ \E u \in users : UuidStr(u.id) = resp[q].body.id /\ u.is_active)
         => /\ resp'[p].status = 200
            /\ resp'[p].body.token_type = "bearer"
            /\ resp'[p].body.access_token.sub = resp[q].body.id]_vars

C6_Witness ==
    \E p, q \in Procs :
        /\ Finished(q, "register") /\ resp[q].status = 201
        /\ Finished(p, "login") /\ resp[p].status = 200
        /\ req[p].email # req[q].email
        /\ req[q].email # resp[q].body.email
        /\ resp[p].body.access_token.sub = resp[q].body.id

\* C7: login never changes the users table; a register changes it only in
\* the step that answers 201, and then by exactly one new row, every
\* existing row staying as it was; a register that fails leaves it unchanged.
C7_Frame ==
    [][\A p \in Procs :
         (pc'[p] # pc[p] /\ op'[p] \in {"login", "register"})
         => IF op'[p] = "register" /\ pc'[p] = "done" /\ resp'[p].status = 201
            THEN /\ users \subseteq users'
                 /\ Cardinality(users') = Cardinality(users) + 1
            ELSE users' = users]_vars

C7_Witness ==
    \E p, q \in Procs :
        /\ Finished(p, "register") /\ resp[p].status = 201
        /\ Finished(q, "register") /\ resp[q].status = 400
        /\ Cardinality(users) = 1

\* C8: a register with an unused normalised email and the phone of a stored
\* user fails with DuplicatePhone (400) and creates no user: it passes the
\* email check, the phone stays taken while it waits, and the phone check
\* rejects it.
C8_DuplicatePhone ==
    [][\A p \in Procs :
         /\ (/\ Starts(p, "register")
             /\ ByEmail(users, _normalize_email(req'[p].email)) = {}
             /\ ByPhone(users, req'[p].phone) # {})
            => (pc'[p] = "check_phone" /\ users' = users)
         /\ (pc[p] = "check_phone" /\ ByPhone(users, req[p].phone) # {})
            => \/ /\ pc'[p] = "check_phone"
                  /\ req'[p] = req[p]
                  /\ ByPhone(users', req[p].phone) # {}
               \/ /\ pc'[p] = "done"
                  /\ resp'[p] = [status |-> 400,
                                 detail |-> "Esse telefone ja foi cadastrado"]
                  /\ users' = users]_vars

C8_Witness ==
    \E p \in Procs :
        /\ Finished(p, "register")
        /\ resp[p] = [status |-> 400, detail |-> "Esse telefone ja foi cadastrado"]
        /\ ByEmail(users, _normalize_email(req[p].email)) = {}
        /\ ByPhone(users, req[p].phone) # {}

\* C9: the row a register creates has role user, active true and no brand,
\* whatever the request body carried, and the answer is exactly {id, email}
\* of that row: no token.
C9_FixedRoleActiveBrand ==
    [][\A p \in Procs :
         (pc[p] = "commit" /\ pc'[p] = "done" /\ resp'[p].status = 201)
         => \E u \in users' \ users :
              /\ u.role = "user"
              /\ u.is_active = TRUE
              /\ u.brand_id = NULL
              /\ resp'[p] = [status |-> 201,
                             body |-> [id |-> UuidStr(u.id), email |-> u.email]]]_vars

C9_Witness ==
    \E p \in Procs : \E u \in users :
        /\ Finished(p, "register") /\ resp[p].status = 201
        /\ DOMAIN resp[p].body = {"id", "email"}
        /\ resp[p].body.id = UuidStr(u.id)
        /\ u.role = "user" /\ u.is_active /\ u.brand_id = NULL

\* C10: in every reachable state no two stored users share an email or a
\* phone, and every stored email is its own normalisation.
C10_UniqueNormalised ==
    /\ \A u, v \in users : (u.email = v.email \/ u.phone = v.phone) => u.id = v.id
    /\ \A u, v \in users : u.id = v.id => u = v
    /\ \A u \in users : u.email = _normalize_email(u.email)

C10_Witness ==
    /\ Cardinality(users) = 2
    /\ \E p \in Procs : Finished(p, "register") /\ req[p].email # email[p]

====
